---- MODULE Spec2Model ----
(***************************************************************************)
(* The record/playback log of axon (src/unnamed/part_001): the Log object  *)
(* with its registries and entry log, the change listener installed by    *)
(* registerProperty, clear(), the playback loop stepUntil and the JSON     *)
(* replacer/reviver pair.                                                  *)
(*                                                                         *)
(* JavaScript values are tagged records, so that values of different      *)
(* JavaScript types can be compared.  Registry ids are 0-based as in the   *)
(* code; TLA+ sequences are 1-based, so properties[i] of the code is       *)
(* properties[i + 1] here.                                                 *)
(***************************************************************************)
EXTENDS Integers, Sequences, FiniteSets, TLC

\* ----------------------------------------------------------------- bounds
\* Date.now() ranges over 1..MaxTime; playback times over 0..MaxTime.
MaxTime == 2
\* The recorder's entry log holds at most MaxEntries entries.
MaxEntries == 2
\* A collection holds at most MaxMembers members.
MaxMembers == 2
\* A log the playback host loads holds at most MaxLog entries.
MaxLog == 2

\* The property objects and the collection objects of the host, numbered in
\* the order the host creates them.
Props == {1, 2}
Colls == {1, 2}

VARIABLES
    enabled,       \* Log.enabled (its truthiness)
    properties,    \* Log.properties: sequence of property objects
    collections,   \* Log.collections: sequence of collection objects
    collection,    \* Log.collection: the field clear() writes
    propertySets,  \* Log.propertySets
    entries,       \* Log.entries: the entry log
    registration,  \* registration[p]: whether registerProperty( p ) was called,
                   \* and whether recording was enabled then
    cidField,      \* cidField[p]: the `cid` field of property object p
    value,         \* value[p]: the current value of property p
    observers,     \* observers[p]: the listeners lazyLink'ed to p, each the
                   \* `index` its closure captured
    members,       \* members[c]: the content of collection object c
    now,           \* Date.now()
    logArray,      \* the array the playback host passes to stepUntil
    numberProperty,\* numberProperty[n]: the fields of NumberProperty object n
    last           \* the last operation performed, its inputs and its result

vars == <<enabled, properties, collections, collection, propertySets, entries,
          registration, cidField, value, observers, members, now, logArray,
          numberProperty, last>>

\* ------------------------------------------------------ JavaScript values
Undefined == [t |-> "undefined"]
Null == [t |-> "null"]
Bool(b) == [t |-> "boolean", b |-> b]
Num(n) == [t |-> "number", n |-> n]
Str(s) == [t |-> "string", s |-> s]
\* A reference to the live property object p.
Ref(p) == [t |-> "Property", obj |-> p]
\* A reference to the live collection object c.
CollRef(c) == [t |-> "Collection", obj |-> c]
\* An instance of dot's Vector2.
Vector2(x, y) == [t |-> "Vector2", x |-> x, y |-> y]
\* Plain objects (constructor Object), by their own fields.
PropertyTag(c) == [t |-> "Object", jsonClass |-> Str("Property"), cid |-> c]
Vector2Tag(x, y) == [t |-> "Object", x |-> x, y |-> y, jsonClass |-> Str("Vector2")]
PlainXY(x, y) == [t |-> "Object", x |-> x, y |-> y]
\* A plain object holding a structural copy of the own fields of property p.
PlainCopy(p) == [t |-> "Object", copyOf |-> p]
EmptyArray == [t |-> "Array", items |-> <<>>]

\* ToBoolean: undefined, null, false, 0 and "" are falsy.
Truthy(v) ==
    CASE v.t = "undefined" -> FALSE
      [] v.t = "null" -> FALSE
      [] v.t = "boolean" -> v.b
      [] v.t = "number" -> v.n /= 0
      [] v.t = "string" -> v.s /= ""
      [] OTHER -> TRUE

\* Whether array[i] exists for a JavaScript index i: i is a number within the
\* array.  Any other lookup gives undefined.
InRange(array, i) == i.t = "number" /\ i.n >= 0 /\ i.n < Len(array)

\* log.properties[i] and log.collections[i].
propertiesAt(i) == IF InRange(properties, i) THEN Ref(properties[i.n + 1]) ELSE Undefined
collectionsAt(i) == IF InRange(collections, i) THEN CollRef(collections[i.n + 1]) ELSE Undefined

\* value.cid as the replacer reads it: the cid field of a property object, or
\* the own field of a plain object; absent on every other value.
GetCid(v) ==
    CASE v.t = "Property" -> cidField[v.obj]
      [] v.t = "Object" /\ "cid" \in DOMAIN v -> v.cid
      [] OTHER -> Undefined

\* value.jsonClass as the reviver reads it.
GetJsonClass(v) ==
    IF v.t = "Object" /\ "jsonClass" \in DOMAIN v THEN v.jsonClass ELSE Undefined

\* ----------------------------------------------------- replacer / reviver
replacer(v) ==
    IF Truthy(v) /\ Truthy(GetCid(v))
    THEN PropertyTag(GetCid(v))
    ELSE IF Truthy(v) /\ v.t = "Vector2"
         THEN Vector2Tag(v.x, v.y)
         ELSE v

reviver(v) ==
    IF Truthy(v) /\ Truthy(GetJsonClass(v)) /\ GetJsonClass(v) = Str("Property")
    THEN propertiesAt(v.cid)
    ELSE IF Truthy(v) /\ Truthy(GetJsonClass(v)) /\ GetJsonClass(v) = Str("Vector2")
         THEN PlainXY(v.x, v.y)
         ELSE v

\* The JSON text of a value the replacer returned.  A live object the
\* replacer let through is written by its own fields.
JsonText(v) ==
    CASE v.t = "null" -> "null"
      [] v.t = "boolean" -> IF v.b THEN "true" ELSE "false"
      [] v.t = "number" -> ToString(v.n)
      [] v.t = "string" -> "\"" \o v.s \o "\""
      [] v.t = "Property" -> "{\"_value\":..." \o ToString(v.obj) \o "}"
      [] v.t = "Object" /\ "copyOf" \in DOMAIN v ->
             "{\"_value\":..." \o ToString(v.copyOf) \o "}"
      [] v.t = "Object" /\ "cid" \in DOMAIN v ->
             "{\"jsonClass\":\"Property\",\"cid\":" \o ToString(v.cid.n) \o "}"
      [] v.t = "Object" /\ "jsonClass" \in DOMAIN v ->
             "{\"x\":" \o ToString(v.x) \o ",\"y\":" \o ToString(v.y)
                 \o ",\"jsonClass\":\"Vector2\"}"
      [] v.t = "Object" ->
             "{\"x\":" \o ToString(v.x) \o ",\"y\":" \o ToString(v.y) \o "}"

\* JSON.stringify( value, log.replacer ): undefined for undefined, else a text.
stringify(v) ==
    IF replacer(v) = Undefined THEN Undefined ELSE Str(JsonText(replacer(v)))

\* What a JSON text can parse to: scalars and plain objects.
Coords == 0..1
JsonTrees ==
    {Null, Bool(TRUE), Bool(FALSE), Str(""), Str("a")}
        \cup {Num(n) : n \in 0..3}
        \cup {PropertyTag(Num(n)) : n \in 0..Cardinality(Props)}
        \cup {Vector2Tag(x, y) : x \in Coords, y \in Coords}
        \cup {PlainXY(x, y) : x \in Coords, y \in Coords}
        \cup {PlainCopy(p) : p \in Props}

SyntaxError == [t |-> "SyntaxError"]

\* What each JSON text denotes.
JsonParse ==
    [s \in {JsonText(j) : j \in JsonTrees} |->
        CHOOSE j \in JsonTrees : JsonText(j) = s]

\* JSON.parse( text, log.reviver ): the reviver applied to what the text
\* denotes; a SyntaxError if it denotes nothing.
parse(text) ==
    IF text.t = "string" /\ text.s \in DOMAIN JsonParse
    THEN reviver(JsonParse[text.s])
    ELSE SyntaxError

\* ------------------------------------------------------------ log entries
\* A log entry with every field stepUntil or the listener names; a field the
\* entry does not have reads as undefined.
Entry(time, type, index, cid, collectionCid, action, val, event) ==
    [time |-> time, type |-> type, index |-> index, cid |-> cid,
     collectionCid |-> collectionCid, action |-> action, value |-> val,
     event |-> event]

\* The entry the change listener of registerProperty builds for a new value.
ListenerEntry(index, v) ==
    Entry(now, Str("property"), Num(index), Undefined, Undefined, "change",
          stringify(v), Undefined)

\* The state an operation works on while it runs: the mutable parts that the
\* property and collection objects and the entry log hold.
Machine == [value |-> value, members |-> members, entries |-> entries]

\* A listener that puts its entry at the front of the log (unshift).
listener_unshift(m, index, v) ==
    [m EXCEPT !.entries = <<ListenerEntry(index, v)>> \o @]

\* A listener that records only while log.enabled is set.
listener_whileEnabled(m, index, v) ==
    IF enabled
    THEN [m EXCEPT !.entries = Append(@, ListenerEntry(index, v))]
    ELSE m

\* Lines 93-97: the listener registerProperty links, called with the new
\* value: it pushes its entry onto log.entries.
listener(m, index, v) ==
    [m EXCEPT !.entries = Append(@, ListenerEntry(index, v))]

\* The listeners whose captured indices are obs, called in turn with v.
RECURSIVE callListeners(_, _, _)
callListeners(m, obs, v) ==
    IF obs = <<>> THEN m
    ELSE callListeners(listener(m, Head(obs), v), Tail(obs), v)

\* Property p notifies its observers of the new value v, in the order they
\* were linked.
notifyObservers(m, p, v) == callListeners(m, observers[p], v)

\* property.value = v: store the value and notify, unless it is unchanged.
PropertySet(m, p, v) ==
    IF m.value[p] = v
    THEN m
    ELSE notifyObservers([m EXCEPT !.value[p] = v], p, v)

\* ---------------------------------------------------------------- replay
\* The first occurrence of x removed from sequence s.
RECURSIVE RemoveFirst(_, _)
RemoveFirst(s, x) ==
    IF s = <<>> THEN <<>>
    ELSE IF Head(s) = x THEN Tail(s)
    ELSE <<Head(s)>> \o RemoveFirst(Tail(s), x)

\* Collections sort their members by object, undefined last.
SortKey(v) == IF v.t = "Property" THEN v.obj ELSE Cardinality(Props) + 1
CollectionSort(s) == SortSeq(s, LAMBDA a, b : SortKey(a) < SortKey(b))

\* The outcome of the body of the loop for one entry: the machine after it,
\* what was done, and whether a TypeError or SyntaxError was thrown.
Outcome(m, did, threw) == [m |-> m, did |-> did, threw |-> threw]

\* A change whose test of entry.value is left out.
applyChange_noValueTest(m, entry) ==
    LET target == propertiesAt(entry.cid)
    IN  IF target = Undefined \/ parse(entry.value) = SyntaxError
        THEN Outcome(m, "change", TRUE)
        ELSE Outcome(PropertySet(m, target.obj, parse(entry.value)),
                     "change", FALSE)

\* A change that skips the entry when no property is registered under
\* entry.cid.
applyChange_guarded(m, entry) ==
    LET target == propertiesAt(entry.cid)
    IN  IF Truthy(entry.value)
        THEN IF parse(entry.value) = SyntaxError
             THEN Outcome(m, "change", TRUE)
             ELSE IF target = Undefined
                  THEN Outcome(m, "change", FALSE)
                  ELSE Outcome(PropertySet(m, target.obj, parse(entry.value)),
                               "change", FALSE)
        ELSE Outcome(m, "missing value", FALSE)

\* Lines 115-122: a change with a value parses it and assigns it to the
\* property at entry.cid; a change without one is reported on the console.
applyChange(m, entry) ==
    LET target == propertiesAt(entry.cid)
    IN  IF Truthy(entry.value)
        THEN IF target = Undefined \/ parse(entry.value) = SyntaxError
             THEN Outcome(m, "change", TRUE)
             ELSE Outcome(PropertySet(m, target.obj, parse(entry.value)),
                          "change", FALSE)
        ELSE Outcome(m, "missing value", FALSE)

\* An add that looks both objects up under entry.cid.
applyAdd_sameId(m, entry) ==
    LET target == propertiesAt(entry.cid)
        coll == collectionsAt(entry.cid)
    IN  IF coll = Undefined
        THEN Outcome(m, "add", TRUE)
        ELSE Outcome([m EXCEPT !.members[coll.obj] = Append(@, target)],
                     "add", FALSE)

\* Lines 126-128: add the property at entry.cid to the collection at
\* entry.collectionCid.
applyAdd(m, entry) ==
    LET target == propertiesAt(entry.cid)
        coll == collectionsAt(entry.collectionCid)
    IN  IF coll = Undefined
        THEN Outcome(m, "add", TRUE)
        ELSE Outcome([m EXCEPT !.members[coll.obj] = Append(@, target)],
                     "add", FALSE)

\* A dispatch whose last branch is a plain else: every action that is not
\* one of the five before it is taken for a sort.
applyEntry_elseSort(m, entry) ==
    LET target == propertiesAt(entry.cid)
        coll == collectionsAt(entry.collectionCid)
    IN  CASE entry.action = "change" -> applyChange(m, entry)
          [] entry.action = "trigger" ->
                 Outcome(m, "trigger", target = Undefined)
          [] entry.action = "add" -> applyAdd(m, entry)
          [] entry.action = "remove" ->
                 IF coll = Undefined
                 THEN Outcome(m, "remove", TRUE)
                 ELSE Outcome([m EXCEPT !.members[coll.obj] = RemoveFirst(@, target)],
                              "remove", FALSE)
          [] entry.action = "reset" ->
                 IF coll = Undefined
                 THEN Outcome(m, "reset", TRUE)
                 ELSE Outcome([m EXCEPT !.members[coll.obj] = <<>>], "reset", FALSE)
          [] OTHER ->
                 IF coll = Undefined
                 THEN Outcome(m, "sort", TRUE)
                 ELSE Outcome([m EXCEPT !.members[coll.obj] = CollectionSort(@)],
                              "sort", FALSE)

\* Lines 111-137: the dispatch on entry.action.
applyEntry(m, entry) ==
    LET target == propertiesAt(entry.cid)
        coll == collectionsAt(entry.collectionCid)
    IN  CASE entry.action = "change" -> applyChange(m, entry)
          [] entry.action = "trigger" ->
                 Outcome(m, "trigger", target = Undefined)
          [] entry.action = "add" -> applyAdd(m, entry)
          [] entry.action = "remove" ->
                 IF coll = Undefined
                 THEN Outcome(m, "remove", TRUE)
                 ELSE Outcome([m EXCEPT !.members[coll.obj] = RemoveFirst(@, target)],
                              "remove", FALSE)
          [] entry.action = "reset" ->
                 IF coll = Undefined
                 THEN Outcome(m, "reset", TRUE)
                 ELSE Outcome([m EXCEPT !.members[coll.obj] = <<>>], "reset", FALSE)
          [] entry.action = "sort" ->
                 IF coll = Undefined
                 THEN Outcome(m, "sort", TRUE)
                 ELSE Outcome([m EXCEPT !.members[coll.obj] = CollectionSort(@)],
                              "sort", FALSE)
          [] OTHER -> Outcome(m, "nothing", FALSE)

\* The result of a run of the loop: the machine, the log index reached, the
\* entries the body ran for (log index and what was done), and whether the
\* call threw instead of returning.
Run(m, logIndex, fired, threw) ==
    [m |-> m, logIndex |-> logIndex, fired |-> fired, threw |-> threw]

\* A loop that stops one entry short of the end.
inArray_oneShort(a, logIndex) == logIndex < Len(a) - 1

\* Line 106: the loop goes on while logIndex < logArray.length.
inArray(a, logIndex) == logIndex < Len(a)

\* A frame that leaves out the entries at the playback time itself.
inFrame_strict(a, logIndex, playbackTime) == a[logIndex + 1].time < playbackTime

\* Line 110: the entry at logIndex passed in this time frame.
inFrame(a, logIndex, playbackTime) == a[logIndex + 1].time <= playbackTime

\* Lines 106-145: the loop of stepUntil.  `own` says that the array passed is
\* the recorder's own entry log, which the loop then reads as it grows.
RECURSIVE stepLoop(_, _, _, _, _, _)
stepLoop(m, own, array, playbackTime, logIndex, fired) ==
    LET a == IF own THEN m.entries ELSE array
    IN  IF inArray(a, logIndex) /\ inFrame(a, logIndex, playbackTime)
        THEN LET o == applyEntry(m, a[logIndex + 1])
                 f == Append(fired, [index |-> logIndex, did |-> o.did])
             IN  IF o.threw
                 THEN Run(o.m, logIndex, f, TRUE)
                 ELSE stepLoop(o.m, own, array, playbackTime, logIndex + 1, f)
        ELSE Run(m, logIndex, fired, FALSE)
\* ------------------------------------------------------------ operations
\* new Log(): empty registries and an empty entry log; enabled is whatever
\* the 'log' query parameter says.  No property object exists yet; a
\* property object starts with value 1, no observer and no cid field.
Init ==
    /\ enabled \in BOOLEAN
    /\ properties = <<>>
    /\ collections = <<>>
    /\ collection = Undefined
    /\ propertySets = <<>>
    /\ entries = <<>>
    /\ registration = [p \in Props |-> "none"]
    /\ cidField = [p \in Props |-> Undefined]
    /\ value = [p \in Props |-> Num(1)]
    /\ observers = [p \in Props |-> <<>>]
    /\ members = [c \in Colls |-> <<>>]
    /\ now = 1
    /\ logArray = <<>>
    /\ numberProperty = <<>>
    /\ last = [op |-> "new Log"]

\* registerProperty with link in place of lazyLink: the listener is called
\* back at once with the value the property holds.
registerProperty_link(p) ==
    /\ registration[p] = "none"
    /\ \A q \in 1..(p - 1) : registration[q] /= "none"
    /\ registration' = [registration EXCEPT
                            ![p] = IF enabled THEN "enabled" ELSE "disabled"]
    /\ IF ~enabled
       THEN UNCHANGED <<properties, observers, entries>>
       ELSE /\ properties' = Append(properties, p)
            /\ observers' = [observers EXCEPT ![p] = Append(@, Len(properties))]
            /\ entries' = Append(entries, ListenerEntry(Len(properties), value[p]))
    /\ last' = [op |-> "registerProperty", p |-> p, enabled |-> enabled,
                pre |-> Machine, registry |-> properties]
    /\ UNCHANGED <<enabled, collections, collection, propertySets,
                   cidField, value, members, now, logArray,
                   numberProperty>>

\* registerProperty without the test of this.enabled.
registerProperty_noGuard(p) ==
    /\ registration[p] = "none"
    /\ \A q \in 1..(p - 1) : registration[q] /= "none"
    /\ registration' = [registration EXCEPT
                            ![p] = IF enabled THEN "enabled" ELSE "disabled"]
    /\ properties' = Append(properties, p)
    /\ observers' = [observers EXCEPT ![p] = Append(@, Len(properties))]
    /\ last' = [op |-> "registerProperty", p |-> p, enabled |-> enabled,
                pre |-> Machine, registry |-> properties]
    /\ UNCHANGED <<enabled, collections, collection, propertySets, entries,
                   cidField, value, members, now, logArray,
                   numberProperty>>

\* registerProperty with unshift in place of push: the new property goes to
\* the front of the registry.
registerProperty_unshift(p) ==
    /\ registration[p] = "none"
    /\ \A q \in 1..(p - 1) : registration[q] /= "none"
    /\ registration' = [registration EXCEPT
                            ![p] = IF enabled THEN "enabled" ELSE "disabled"]
    /\ IF ~enabled
       THEN UNCHANGED <<properties, observers>>
       ELSE /\ properties' = <<p>> \o properties
            /\ observers' = [observers EXCEPT ![p] = Append(@, Len(properties))]
    /\ last' = [op |-> "registerProperty", p |-> p, enabled |-> enabled,
                pre |-> Machine, registry |-> properties]
    /\ UNCHANGED <<enabled, collections, collection, propertySets, entries,
                   cidField, value, members, now, logArray,
                   numberProperty>>

\* log.registerProperty( p ), called when property object p is created.  The
\* host creates its property objects in turn.
registerProperty(p) ==
    /\ registration[p] = "none"
    /\ \A q \in 1..(p - 1) : registration[q] /= "none"
    /\ registration' = [registration EXCEPT
                            ![p] = IF enabled THEN "enabled" ELSE "disabled"]
    /\ IF ~enabled
       THEN UNCHANGED <<properties, observers>>
       ELSE /\ properties' = Append(properties, p)
            /\ observers' = [observers EXCEPT ![p] = Append(@, Len(properties))]
    /\ last' = [op |-> "registerProperty", p |-> p, enabled |-> enabled,
                pre |-> Machine, registry |-> properties]
    /\ UNCHANGED <<enabled, collections, collection, propertySets, entries,
                   cidField, value, members, now, logArray,
                   numberProperty>>

\* The host adds collection object c to the collections registry.
pushCollection(c) ==
    /\ c = Len(collections) + 1
    /\ collections' = Append(collections, c)
    /\ last' = [op |-> "pushCollection", c |-> c, pre |-> Machine]
    /\ UNCHANGED <<enabled, properties, collection, propertySets, entries,
                   registration, cidField, value, observers, members, now, logArray,
                   numberProperty>>

\* log.enabled = b: the flag is public and toggled in code.
setEnabled(b) ==
    /\ b /= enabled
    /\ enabled' = b
    /\ last' = [op |-> "setEnabled", b |-> b, pre |-> Machine]
    /\ UNCHANGED <<properties, collections, collection, propertySets, entries,
                   registration, cidField, value, observers, members, now, logArray,
                   numberProperty>>

\* The simulation sets property p to v.
set(p, v) ==
    /\ registration[p] /= "none"
    /\ \E m \in {PropertySet(Machine, p, v)} :
           /\ Len(m.entries) <= MaxEntries
           /\ value' = m.value
           /\ entries' = m.entries
    /\ last' = [op |-> "set", p |-> p, v |-> v, pre |-> Machine]
    /\ UNCHANGED <<enabled, properties, collections, collection, propertySets,
                   registration, cidField, observers, members, now, logArray,
                   numberProperty>>

\* The wall clock advances.
tick ==
    /\ now < MaxTime
    /\ now' = now + 1
    /\ last' = [op |-> "tick", pre |-> Machine]
    /\ UNCHANGED <<enabled, properties, collections, collection, propertySets,
                   entries, registration, cidField, value, observers, members, logArray,
                   numberProperty>>

\* log.clear()
clear ==
    /\ properties' = <<>>
    /\ collection' = EmptyArray
    /\ propertySets' = <<>>
    /\ last' = [op |-> "clear", pre |-> Machine]
    /\ UNCHANGED <<enabled, collections, entries, registration, cidField, value,
                   observers, members, now, logArray,
                   numberProperty>>

\* A stepUntil that scans the array from its start at every call.
stepUntil_fromZero(own, playbackTime, logIndex) ==
    /\ last.op = "stepUntil" =>
           /\ ~last.threw
           /\ own = last.own
           /\ logIndex = last.result
           /\ playbackTime >= last.playbackTime
    /\ \E r \in {stepLoop(Machine, own, logArray, playbackTime, 0, <<>>)} :
       LET indices == [k \in 1..Len(r.fired) |-> r.fired[k].index]
       IN  /\ Len(r.m.entries) <= MaxEntries
           /\ \A c \in Colls : Len(r.m.members[c]) <= MaxMembers
           /\ value' = r.m.value
           /\ members' = r.m.members
           /\ entries' = r.m.entries
           /\ last' = [op |-> "stepUntil", own |-> own,
                       playbackTime |-> playbackTime, logIndex |-> logIndex,
                       threw |-> r.threw, result |-> r.logIndex,
                       fired |-> r.fired, pre |-> Machine,
                       prev |-> IF last.op = "stepUntil" THEN last.playbackTime
                                ELSE -1,
                       start |-> IF last.op = "stepUntil" THEN last.start
                                 ELSE logIndex,
                       played |-> IF last.op = "stepUntil"
                                  THEN last.played \o indices ELSE indices]
    /\ UNCHANGED <<enabled, properties, collections, collection, propertySets,
                   registration, cidField, observers, now, logArray,
                   numberProperty>>

\* log.stepUntil( logArray, playbackTime, logIndex ), where the array is the
\* recorder's own entry log (own) or the log the host loaded.  A playback
\* pass starts at any log index; each later call of the pass gets the log
\* index the call before it returned and a playback time that is not
\* earlier.  `last` keeps the machine before the call (pre), the playback
\* time of the call before it in the pass (prev, -1 if none), the log index
\* the pass started at and the log indices it ran the body for (played).
stepUntil(own, playbackTime, logIndex) ==
    /\ last.op = "stepUntil" =>
           /\ ~last.threw
           /\ own = last.own
           /\ logIndex = last.result
           /\ playbackTime >= last.playbackTime
    /\ \E r \in {stepLoop(Machine, own, logArray, playbackTime, logIndex, <<>>)} :
       LET indices == [k \in 1..Len(r.fired) |-> r.fired[k].index]
       IN  /\ Len(r.m.entries) <= MaxEntries
           /\ \A c \in Colls : Len(r.m.members[c]) <= MaxMembers
           /\ value' = r.m.value
           /\ members' = r.m.members
           /\ entries' = r.m.entries
           /\ last' = [op |-> "stepUntil", own |-> own,
                       playbackTime |-> playbackTime, logIndex |-> logIndex,
                       threw |-> r.threw, result |-> r.logIndex,
                       fired |-> r.fired, pre |-> Machine,
                       prev |-> IF last.op = "stepUntil" THEN last.playbackTime
                                ELSE -1,
                       start |-> IF last.op = "stepUntil" THEN last.start
                                 ELSE logIndex,
                       played |-> IF last.op = "stepUntil"
                                  THEN last.played \o indices ELSE indices]
    /\ UNCHANGED <<enabled, properties, collections, collection, propertySets,
                   registration, cidField, observers, now, logArray,
                   numberProperty>>

\* The values the simulation gives its properties.
SetValues == {Undefined, Num(2), Num(3)}

\* Recording, and playback of the recorder's own entry log from its start.
Next ==
    \/ \E p \in Props : registerProperty(p)
    \/ \E b \in BOOLEAN : setEnabled(b)
    \/ \E p \in Props, v \in SetValues : set(p, v)
    \/ tick
    \/ clear
    \/ \E t \in 0..MaxTime :
           stepUntil(TRUE, t, IF last.op = "stepUntil" THEN last.result ELSE 0)

Spec == Init /\ [][Next]_vars

\* --------------------------------------------- playback of a loaded log
\* The entries of the logs the playback host loads: every action stepUntil
\* knows and one it does not.  A change carries a value "2" or "3" or none;
\* change and add range over the registry ids of all property and
\* collection objects, the other actions name id 0.
Cids == {Num(p - 1) : p \in Props}
CollCids == {Num(c - 1) : c \in Colls}
LoadedEntries ==
    UNION {
        {Entry(t, Undefined, Undefined, c, Undefined, "change", v, Undefined) :
            c \in Cids, v \in {Undefined, Str("2"), Str("3")}}
        \cup {Entry(t, Undefined, Undefined, c, cc, "add", Undefined, Undefined) :
            c \in Cids, cc \in CollCids}
        \cup {Entry(t, Undefined, Undefined, Num(0), Undefined, "trigger", Undefined, Str("e")),
              Entry(t, Undefined, Undefined, Num(0), Num(0), "remove", Undefined, Undefined),
              Entry(t, Undefined, Undefined, Undefined, Num(0), "reset", Undefined, Undefined),
              Entry(t, Undefined, Undefined, Undefined, Num(0), "sort", Undefined, Undefined),
              Entry(t, Undefined, Undefined, Undefined, Undefined, "bogus", Undefined, Undefined)}
        : t \in 1..MaxTime}

LoadedLogs == UNION {[1..n -> LoadedEntries] : n \in 0..MaxLog}

\* A recorder constructed with recording enabled, and a log the playback
\* host has loaded.
InitReplay ==
    /\ enabled = TRUE
    /\ properties = <<>>
    /\ collections = <<>>
    /\ collection = Undefined
    /\ propertySets = <<>>
    /\ entries = <<>>
    /\ registration = [p \in Props |-> "none"]
    /\ cidField = [p \in Props |-> Undefined]
    /\ value = [p \in Props |-> Num(1)]
    /\ observers = [p \in Props |-> <<>>]
    /\ members = [c \in Colls |-> <<>>]
    /\ now = 1
    /\ logArray \in LoadedLogs
    /\ numberProperty = <<>>
    /\ last = [op |-> "new Log"]

\* The host sets up its properties and collections, then plays the log.
NextReplay ==
    \/ \E p \in Props : last.op /= "stepUntil" /\ registerProperty(p)
    \/ \E c \in Colls : last.op /= "stepUntil" /\ pushCollection(c)
    \/ \E t \in 0..MaxTime, i \in 0..(MaxLog + 1) : stepUntil(FALSE, t, i)

SpecReplay == InitReplay /\ [][NextReplay]_vars
\* ------------------------------------------------------- the JSON hooks
\* The values the hooks are applied to: JSON scalars, undefined, the
\* property objects, vectors and plain objects.
JsonScalars ==
    {Null, Bool(TRUE), Bool(FALSE), Str(""), Str("a")} \cup {Num(n) : n \in 0..3}
CodecValues ==
    JsonScalars \cup {Undefined} \cup {Ref(p) : p \in Props}
        \cup {Vector2(x, y) : x \in Coords, y \in Coords}
        \cup {PlainXY(x, y) : x \in Coords, y \in Coords}

\* A recorder as constructed, next to property objects that the host gave
\* no cid field or a cid field of 0 or 1.
InitCodec ==
    /\ enabled \in BOOLEAN
    /\ properties = <<>>
    /\ collections = <<>>
    /\ collection = Undefined
    /\ propertySets = <<>>
    /\ entries = <<>>
    /\ registration = [p \in Props |-> "none"]
    /\ cidField \in [Props -> {Undefined} \cup Cids]
    /\ value = [p \in Props |-> Num(1)]
    /\ observers = [p \in Props |-> <<>>]
    /\ members = [c \in Colls |-> <<>>]
    /\ now = 1
    /\ logArray = <<>>
    /\ numberProperty = <<>>
    /\ last = [op |-> "new Log"]

\* JSON.stringify( v, log.replacer ), as the listener calls it (line 94).
stringifyValue(v) ==
    /\ last' = [op |-> "stringify", v |-> v, text |-> stringify(v)]
    /\ UNCHANGED <<enabled, properties, collections, collection, propertySets,
                   entries, registration, cidField, value, observers, members,
                   now, logArray,
                   numberProperty>>

\* JSON.parse( text, log.reviver ), as stepUntil calls it (line 117), on the
\* text just produced.
parseText ==
    /\ last.op = "stringify"
    /\ last.text /= Undefined
    /\ last' = [op |-> "parse", v |-> last.v, text |-> last.text,
                back |-> parse(last.text)]
    /\ UNCHANGED <<enabled, properties, collections, collection, propertySets,
                   entries, registration, cidField, value, observers, members,
                   now, logArray,
                   numberProperty>>

NextCodec ==
    \/ \E p \in Props : registerProperty(p)
    \/ \E b \in BOOLEAN : setEnabled(b)
    \/ \E v \in CodecValues : stringifyValue(v)
    \/ parseText

SpecCodec == InitCodec /\ [][NextCodec]_vars

\* ------------------------------------------------------ NumberPropertyIO
\* A JavaScript object is a function from its field names to their values:
\* o.k = v adds or overwrites field k, and o.k of an absent field is
\* undefined.
SetField(o, k, v) == [f \in DOMAIN o \cup {k} |-> IF f = k THEN v ELSE o[f]]
GetField(o, k) == IF k \in DOMAIN o THEN o[k] ELSE Undefined

\* The NumberProperty objects and the fields they can hold.
NumberProps == {1, 2}
Range01 == [t |-> "Range", min |-> 0, max |-> 1]
NumberPropertyStates ==
    [value : {Num(0), Num(1)},
     units : {Undefined, Str("m")},
     range : {Undefined, Range01},
     valueType : {Str("FloatingPoint"), Str("Integer")}]

\* PropertyIOImpl = PropertyIO( NumberIO ), the parent adapter: the state
\* object of a property holds its value, the decoded object holds the value
\* of the state object, and setValue sets the property to it.
PropertyIOImpl_toStateObject(np) == [f \in {"value"} |-> GetField(np, "value")]
PropertyIOImpl_fromStateObject(stateObject) ==
    [f \in {"value"} |-> GetField(stateObject, "value")]
PropertyIOImpl_setValue(np, fromState) ==
    SetField(np, "value", GetField(fromState, "value"))

\* Lines 52-58.
fromStateObject(stateObject) ==
    LET fromParentStateObject == PropertyIOImpl_fromStateObject(stateObject)
        withType == SetField(fromParentStateObject, "valueType",
                             GetField(stateObject, "valueType"))
        withUnits == SetField(withType, "units", GetField(stateObject, "units"))
    IN  SetField(withUnits, "range", GetField(stateObject, "range"))

\* A toStateObject whose third assignment copies units once more, into
\* range.
toStateObject_unitsTwice(np) ==
    LET parentStateObject == PropertyIOImpl_toStateObject(np)
        withType == SetField(parentStateObject, "valueType",
                             GetField(np, "valueType"))
        withUnits == SetField(withType, "units", GetField(np, "units"))
    IN  SetField(withUnits, "range", GetField(np, "units"))

\* Lines 65-73.
toStateObject(np) ==
    LET parentStateObject == PropertyIOImpl_toStateObject(np)
        withType == SetField(parentStateObject, "valueType",
                             GetField(np, "valueType"))
        withUnits == SetField(withType, "units", GetField(np, "units"))
    IN  SetField(withUnits, "range", GetField(np, "range"))

\* Lines 75-82: the fields of the property after setValue.
setValue(np, fromState) ==
    LET afterParent == PropertyIOImpl_setValue(np, fromState)
        withUnits == SetField(afterParent, "units", GetField(fromState, "units"))
        withRange == SetField(withUnits, "range", GetField(fromState, "range"))
    IN  SetField(withRange, "valueType", GetField(fromState, "valueType"))

\* Two NumberProperty objects with any fields, next to a recorder that plays
\* no part.
InitIO ==
    /\ enabled = FALSE
    /\ properties = <<>>
    /\ collections = <<>>
    /\ collection = Undefined
    /\ propertySets = <<>>
    /\ entries = <<>>
    /\ registration = [p \in Props |-> "none"]
    /\ cidField = [p \in Props |-> Undefined]
    /\ value = [p \in Props |-> Num(1)]
    /\ observers = [p \in Props |-> <<>>]
    /\ members = [c \in Colls |-> <<>>]
    /\ now = 1
    /\ logArray = <<>>
    /\ numberProperty \in [NumberProps -> NumberPropertyStates]
    /\ last = [op |-> "new Log"]

\* NumberPropertyIO.toStateObject( n )
callToStateObject(n) ==
    /\ last' = [op |-> "toStateObject", n |-> n,
                stateObject |-> toStateObject(numberProperty[n])]
    /\ UNCHANGED <<enabled, properties, collections, collection, propertySets,
                   entries, registration, cidField, value, observers, members,
                   now, logArray, numberProperty>>

\* NumberPropertyIO.fromStateObject( s ) on the state object just encoded.
callFromStateObject ==
    /\ last.op = "toStateObject"
    /\ last' = [op |-> "fromStateObject", n |-> last.n,
                stateObject |-> last.stateObject,
                fromState |-> fromStateObject(last.stateObject)]
    /\ UNCHANGED <<enabled, properties, collections, collection, propertySets,
                   entries, registration, cidField, value, observers, members,
                   now, logArray, numberProperty>>

\* NumberPropertyIO.setValue( q, o ) with the object just decoded.
callSetValue(q) ==
    /\ last.op = "fromStateObject"
    /\ numberProperty' =
           [numberProperty EXCEPT ![q] = setValue(@, last.fromState)]
    /\ last' = [op |-> "setValue", q |-> q, n |-> last.n,
                fromState |-> last.fromState, pre |-> numberProperty]
    /\ UNCHANGED <<enabled, properties, collections, collection, propertySets,
                   entries, registration, cidField, value, observers, members,
                   now, logArray>>

NextIO ==
    \/ \E n \in NumberProps : callToStateObject(n)
    \/ callFromStateObject
    \/ \E q \in NumberProps : callSetValue(q)

SpecIO == InitIO /\ [][NextIO]_vars

\* ================================================================ claims
\* The position of property object p in the properties registry, 0-based.
InRegistry(p) == \E i \in 1..Len(properties) : properties[i] = p
RegistryId(p) == CHOOSE i \in 0..(Len(properties) - 1) : properties[i + 1] = p

\* The JSON text of a number, read back; the JSON text of a scalar the
\* simulation sets.
Decoded(text) == Num(CHOOSE n \in 0..3 : ToString(n) = text.s)
SerializedScalar(v) == IF v = Undefined THEN Undefined ELSE Str(ToString(v.n))

\* The index of the first entry of log, from cursor on, that is later than
\* targetTime, or the end of the log.
FirstUnapplied(log, targetTime, cursor) ==
    IF cursor >= Len(log) THEN cursor
    ELSE CHOOSE r \in cursor..Len(log) :
             /\ \A i \in cursor..(r - 1) : log[i + 1].time <= targetTime
             /\ r < Len(log) => log[r + 1].time > targetTime

\* ------------------------------------------------------------------- C1
\* C1: replaying a log the recorder's own listener produced reconstructs the
\* state: stepUntil returns the index of the first entry later than the
\* target time, and every property whose registry id an applied entry names
\* holds the decoded value of the last such entry.
C1_RecordThenReplay ==
    (last.op = "stepUntil" /\ last.own) =>
        /\ ~last.threw
        /\ last.result =
               FirstUnapplied(last.pre.entries, last.playbackTime, last.logIndex)
        /\ \A i \in last.logIndex..(last.result - 1) :
               LET e == last.pre.entries[i + 1]
               IN  (/\ Truthy(e.value)
                    /\ e.index.n < Len(properties)
                    /\ \A j \in (i + 1)..(last.result - 1) :
                           ~(/\ last.pre.entries[j + 1].index = e.index
                             /\ Truthy(last.pre.entries[j + 1].value)))
                   => value[properties[e.index.n + 1]] = Decoded(e.value)

\* ------------------------------------------------------------------- C5
\* C5: registering a property appends no entry, and a change of the value of
\* a property in the registry appends exactly one entry at the end of the
\* log: {time: now, type: 'property', index: its registry id, action:
\* 'change', value: the serialized new value}; the entries before it stay as
\* they were.  Nothing else is recorded: setting the value a property already
\* has, a change of a property whose registration found recording disabled,
\* a tick of the clock, a switch of enabled and clear() append nothing.
C5_LogCapturesChanges ==
    /\ last.op \in {"registerProperty", "tick", "setEnabled", "clear"} =>
           entries = last.pre.entries
    /\ (last.op = "set" /\ InRegistry(last.p)) =>
           IF last.v /= last.pre.value[last.p]
           THEN entries = Append(last.pre.entries,
                    [time |-> now, type |-> Str("property"),
                     index |-> Num(RegistryId(last.p)), cid |-> Undefined,
                     collectionCid |-> Undefined, action |-> "change",
                     value |-> SerializedScalar(last.v), event |-> Undefined])
           ELSE entries = last.pre.entries
    /\ (last.op = "set" /\ registration[last.p] = "disabled") =>
           entries = last.pre.entries

\* A second change of the second registered property has been recorded
\* behind an earlier entry.
C5_Witness ==
    /\ last.op = "set"
    /\ InRegistry(last.p)
    /\ RegistryId(last.p) = 1
    /\ last.v /= last.pre.value[last.p]
    /\ Len(last.pre.entries) = 1
    /\ Len(entries) = 2

\* ------------------------------------------------------------------- C6
\* C6: immediately after clear(), properties, collections, propertySets and
\* entries all have length 0.
C6_ClearResetsAll ==
    last.op = "clear" =>
        /\ Len(properties) = 0
        /\ Len(collections) = 0
        /\ Len(propertySets) = 0
        /\ Len(entries) = 0

\* ------------------------------------------------------------------- C7
\* C7: a registerProperty call made while recording is disabled leaves the
\* registry, the property's observers and the log as they were, and no later
\* change of that property appends an entry, whatever enabled is by then.
C7_DisabledRegisterIsNoOp ==
    /\ (last.op = "registerProperty" /\ ~last.enabled) =>
           /\ properties = last.registry
           /\ Machine = last.pre
    /\ \A p \in Props : registration[p] = "disabled" =>
           /\ observers[p] = <<>>
           /\ ~InRegistry(p)
    /\ (last.op = "set" /\ registration[last.p] = "disabled") =>
           entries = last.pre.entries

\* A property registered while recording was disabled changes its value
\* after recording has been switched on, next to a registered property.
C7_Witness ==
    /\ last.op = "set"
    /\ registration[last.p] = "disabled"
    /\ last.v /= last.pre.value[last.p]
    /\ enabled
    /\ Len(properties) = 1
\* ------------------------------------------------------------------- C8
\* C8: under a fixed registry, the reviver's decoding of the replacer's
\* encoding of a JSON scalar is that scalar, and a property in the registry,
\* at any registry id, 0 included, is encoded as {jsonClass: 'Property',
\* cid: its registry id} and decoded to the same live property object.  The
\* replacer reads the id from the property's cid field (line 55), which
\* registerProperty does not write; the statement is made for the properties
\* whose cid field holds their registry id, the case most in its favour.
C8_RoundTrip ==
    last.op = "parse" =>
        /\ last.v \in JsonScalars => last.back = last.v
        /\ (/\ last.v.t = "Property"
            /\ InRegistry(last.v.obj)
            /\ cidField[last.v.obj] = Num(RegistryId(last.v.obj))) =>
               /\ last.text = Str("{\"jsonClass\":\"Property\",\"cid\":"
                                      \o ToString(RegistryId(last.v.obj)) \o "}")
               /\ last.back = last.v

\* ------------------------------------------------------------------- C2
\* The log indices cursor, cursor + 1, ..., r - 1.
IndexRun(cursor, r) == [k \in 1..(r - cursor) |-> cursor + k - 1]
FiredIndices == [k \in 1..Len(last.fired) |-> last.fired[k].index]

\* What stepUntil does for an entry, by its action and value.
Dispatch(e) ==
    IF e.action = "change"
    THEN IF Truthy(e.value) THEN "change" ELSE "missing value"
    ELSE IF e.action \in {"trigger", "add", "remove", "reset", "sort"}
         THEN e.action
         ELSE "nothing"

\* C2: when stepUntil(log, targetTime, cursor) returns r, r >= cursor; the
\* entries at cursor..r-1 all have time <= targetTime and are exactly the
\* entries that were applied, in that order, each by its action; and r is at
\* or past the end of the log or log[r].time > targetTime.
C2_CursorPostcondition ==
    (last.op = "stepUntil" /\ ~last.own /\ ~last.threw) =>
        /\ last.result >= last.logIndex
        /\ \A i \in last.logIndex..(last.result - 1) :
               /\ i < Len(logArray)
               /\ logArray[i + 1].time <= last.playbackTime
        /\ FiredIndices = IndexRun(last.logIndex, last.result)
        /\ \A k \in 1..Len(last.fired) :
               last.fired[k].did = Dispatch(logArray[last.fired[k].index + 1])
        /\ \/ last.result >= Len(logArray)
           \/ logArray[last.result + 1].time > last.playbackTime

\* A call from cursor 0 applied the first entry, a change that gave a
\* property a new value, and stopped at the second, which is later than the
\* playback time.
C2_Witness ==
    /\ last.op = "stepUntil"
    /\ ~last.own
    /\ ~last.threw
    /\ last.logIndex = 0
    /\ last.result = 1
    /\ Len(logArray) = 2
    /\ logArray[2].time > last.playbackTime
    /\ last.fired[1].did = "change"
    /\ value /= last.pre.value

\* ------------------------------------------------------------------- C3
Sorted(log) == \A i, j \in 1..Len(log) : i < j => log[i].time <= log[j].time
Played == {last.played[k] : k \in 1..Len(last.played)}
\* The entries the pass has run that change the property at registry id c.
ChangesOf(c) ==
    {i \in Played : /\ logArray[i + 1].action = "change"
                    /\ logArray[i + 1].cid = Num(c)
                    /\ Truthy(logArray[i + 1].value)}
Latest(S) == CHOOSE i \in S : \A j \in S : j <= i

\* C3: over a playback pass (calls with non-decreasing target times, each
\* from the cursor the call before returned) the entries are applied in
\* increasing log index, so none twice, and a property holds the value of the
\* last applied change entry that names it; when the pass started at cursor 0
\* on a time-sorted log, the entries applied are exactly those with time <=
\* the last target time.
C3_ExactlyOnceInLogOrder ==
    (last.op = "stepUntil" /\ ~last.own) =>
        /\ \A k \in 1..(Len(last.played) - 1) :
               last.played[k] < last.played[k + 1]
        /\ \A c \in 0..(Len(properties) - 1) :
               ChangesOf(c) /= {} =>
                   value[properties[c + 1]] =
                       Decoded(logArray[Latest(ChangesOf(c)) + 1].value)
        /\ (last.start = 0 /\ ~last.threw /\ Sorted(logArray)) =>
               Played = {i \in 0..(Len(logArray) - 1) :
                            logArray[i + 1].time <= last.playbackTime}

\* The second call of a pass from cursor 0 applied the second entry; the
\* first call had applied the first.  Both change the same registered
\* property, to different values, and the property holds the later one.
C3_Witness ==
    /\ last.op = "stepUntil"
    /\ ~last.own
    /\ ~last.threw
    /\ last.start = 0
    /\ last.prev >= 0
    /\ last.played = <<0, 1>>
    /\ FiredIndices = <<1>>
    /\ logArray[1].action = "change"
    /\ logArray[2].action = "change"
    /\ logArray[1].cid = logArray[2].cid
    /\ Truthy(logArray[1].value)
    /\ Truthy(logArray[2].value)
    /\ logArray[1].value /= logArray[2].value
    /\ logArray[2].cid.n < Len(properties)
    /\ value[properties[logArray[2].cid.n + 1]] = Decoded(logArray[2].value)

\* ------------------------------------------------------------------- C4
\* C4: a call at the target time of the call before it, from the cursor that
\* call returned, applies no entry, changes no property, collection or log,
\* and returns the same cursor.
C4_IdempotentAtFixedTarget ==
    (last.op = "stepUntil" /\ last.prev = last.playbackTime) =>
        /\ ~last.threw
        /\ last.fired = <<>>
        /\ last.result = last.logIndex
        /\ Machine = last.pre

\* The call before had applied the first of two entries and stopped at the
\* second; the call at the same target time stays there.
C4_Witness ==
    /\ last.op = "stepUntil"
    /\ ~last.own
    /\ last.prev = last.playbackTime
    /\ last.played = <<0>>
    /\ last.logIndex = 1
    /\ Len(logArray) = 2

\* ------------------------------------------------------------------- C9
MissingValue(e) == e.action = "change" /\ ~Truthy(e.value)

\* C9: a change entry without a value that stepUntil meets raises no error,
\* the cursor moves past it, and the entry after it is applied if it is in
\* the time frame; a call that met only such entries changed no property,
\* collection or log.
C9_MissingValueSkipped ==
    (last.op = "stepUntil" /\ ~last.own) =>
        /\ \A k \in 1..Len(last.fired) :
               MissingValue(logArray[last.fired[k].index + 1]) =>
                   /\ ~(last.threw /\ k = Len(last.fired))
                   /\ last.result > last.fired[k].index
                   /\ (/\ last.fired[k].index + 1 < Len(logArray)
                       /\ logArray[last.fired[k].index + 2].time <= last.playbackTime)
                      => /\ k < Len(last.fired)
                         /\ last.fired[k + 1].index = last.fired[k].index + 1
        /\ (/\ last.fired /= <<>>
            /\ \A k \in 1..Len(last.fired) :
                   MissingValue(logArray[last.fired[k].index + 1]))
           => (~last.threw /\ Machine = last.pre)

\* A call met a change without a value and then a change with one, which
\* gave a property a new value.
C9_Witness ==
    /\ last.op = "stepUntil"
    /\ ~last.own
    /\ ~last.threw
    /\ Len(last.fired) = 2
    /\ MissingValue(logArray[last.fired[1].index + 1])
    /\ last.fired[2].did = "change"
    /\ value /= last.pre.value

\* ------------------------------------------------------------------ C10
\* An add entry whose ids are both in their registries.
RegisteredAdd(e) ==
    /\ e.action = "add"
    /\ e.collectionCid.n < Len(collections)
    /\ e.cid.n < Len(properties)
\* The properties the entries of the last call add to collection object c.
AddedTo(c) ==
    LET hits == SelectSeq(last.fired,
                    LAMBDA f : collections[logArray[f.index + 1].collectionCid.n + 1] = c)
    IN  [k \in 1..Len(hits) |-> Ref(properties[logArray[hits[k].index + 1].cid.n + 1])]

\* C10: a call that applied only add entries with registered ids raised no
\* error, added to each collection the properties the entries name for it,
\* once per entry and in log order, and changed no other collection, no
\* property value and no log.
C10_AddEntry ==
    (/\ last.op = "stepUntil"
     /\ ~last.own
     /\ last.fired /= <<>>
     /\ \A k \in 1..Len(last.fired) :
            RegisteredAdd(logArray[last.fired[k].index + 1]))
    => /\ ~last.threw
       /\ value = last.pre.value
       /\ entries = last.pre.entries
       /\ \A c \in Colls : members[c] = last.pre.members[c] \o AddedTo(c)

\* With two collections registered, a call applied one add of the property
\* at id 1 to the empty collection at id 0, which now holds it once.
C10_Witness ==
    /\ last.op = "stepUntil"
    /\ ~last.own
    /\ Len(collections) = 2
    /\ Len(last.fired) = 1
    /\ logArray[last.fired[1].index + 1].action = "add"
    /\ logArray[last.fired[1].index + 1].collectionCid = Num(0)
    /\ logArray[last.fired[1].index + 1].cid = Num(1)
    /\ Len(properties) = 2
    /\ last.pre.members[collections[1]] = <<>>
    /\ members[collections[1]] = <<Ref(properties[2])>>
    /\ members[collections[2]] = <<>>

\* ------------------------------------------------------------------ C11
\* C11: stepUntil leaves the entry log as it found it, in length and in
\* content: applying a change entry to a property registered with an enabled
\* recorder appends no entry.
C11_ReplayReadOnly ==
    last.op = "stepUntil" => entries = last.pre.entries

\* ------------------------------------------------------------------ C12
\* Property p was registered with recording enabled and a clear() since then
\* has emptied the registry: only clear() takes a property out of it.
RegisteredBeforeClear(p) == registration[p] = "enabled" /\ ~InRegistry(p)

\* C12: after clear(), a change of the value of a property registered before
\* the clear appends no entry to the log.  (The registries are not touched
\* by a change of value: no listener and no setter writes them.)
C12_StaleListenersInert ==
    (last.op = "set" /\ RegisteredBeforeClear(last.p)) =>
        entries = last.pre.entries

\* ------------------------------------------------------------------ C13
\* A step that is not a clear() keeps every property of the registry at its
\* id; a registration with recording enabled puts the new property behind
\* them, at the id that equals the number of properties registered since the
\* last clear(), and its listener records under that id.
KeepsIds ==
    \/ last'.op = "clear"
    \/ properties' = properties
    \/ /\ last'.op = "registerProperty"
       /\ last'.enabled
       /\ properties' = Append(properties, last'.p)
       /\ observers'[last'.p] = <<Len(properties)>>

\* No property of the registry is at two ids.
UniqueIds ==
    \A i, j \in 1..Len(properties) : properties[i] = properties[j] => i = j

\* C13: between two clear() calls the k-th property registered while enabled
\* gets id k - 1, properties[id] stays that property over every later
\* registration, change and stepUntil, and no two registered properties
\* share an id.
C13_PositionalStableIds == []UniqueIds /\ [][KeepsIds]_vars

\* The second property registered holds id 1 and the first id 0, after a
\* change has been recorded and stepUntil has been called on the log.
C13_Witness ==
    /\ last.op = "stepUntil"
    /\ properties = <<1, 2>>
    /\ Len(entries) > 0

\* ------------------------------------------------------------------ C14
\* C14: in every reachable state the entry log is ordered by time: for log
\* indices i < j, entries[i].time <= entries[j].time.  (The clock of the
\* model never goes backwards.)
C14_LogTimeOrdered == Sorted(entries)

\* Two entries recorded at different times.
C14_Witness ==
    /\ Len(entries) = 2
    /\ entries[1].time < entries[2].time
    /\ last.op = "set"

\* ------------------------------------------------------------------ C15
\* An entry whose action is none of those stepUntil knows.
UnknownAction(e) ==
    e.action \notin {"change", "trigger", "add", "remove", "reset", "sort"}

\* C15: an entry with an unrecognized action that stepUntil meets raises no
\* error and has nothing done for it, and the cursor moves past it; a call
\* that met only such entries returned and changed no property, collection
\* or log.
C15_UnknownActionIgnored ==
    (last.op = "stepUntil" /\ ~last.own) =>
        /\ \A k \in 1..Len(last.fired) :
               UnknownAction(logArray[last.fired[k].index + 1]) =>
                   /\ ~(last.threw /\ k = Len(last.fired))
                   /\ last.fired[k].did = "nothing"
                   /\ last.result > last.fired[k].index
        /\ (/\ last.fired /= <<>>
            /\ \A k \in 1..Len(last.fired) :
                   UnknownAction(logArray[last.fired[k].index + 1]))
           => (~last.threw /\ Machine = last.pre)

\* A call met two entries with an unknown action and returned the index
\* behind them, with registered properties and collections at hand.
C15_Witness ==
    /\ last.op = "stepUntil"
    /\ ~last.own
    /\ Len(last.fired) = 2
    /\ \A k \in 1..2 : UnknownAction(logArray[last.fired[k].index + 1])
    /\ last.result = 2
    /\ Len(properties) > 0
    /\ Len(collections) > 0

\* ------------------------------------------------------------------ C16
\* The entry names a property id, or a collection id, that its registry does
\* not hold.
MissingProperty(e) == ~InRange(properties, e.cid)
MissingCollection(e) == ~InRange(collections, e.collectionCid)

\* An entry that uses an id its registry does not hold: a change with a value
\* and a trigger use the property id, add and remove both ids, reset and sort
\* the collection id.
OutOfRange(e) ==
    \/ e.action = "change" /\ Truthy(e.value) /\ MissingProperty(e)
    \/ e.action = "trigger" /\ MissingProperty(e)
    \/ e.action \in {"add", "remove"} /\ (MissingProperty(e) \/ MissingCollection(e))
    \/ e.action \in {"reset", "sort"} /\ MissingCollection(e)

\* An entry whose handling dereferences a missing object: the property of a
\* change or trigger, the collection of an add, remove, reset or sort.
Faults(e) ==
    \/ e.action = "change" /\ Truthy(e.value) /\ MissingProperty(e)
    \/ e.action = "trigger" /\ MissingProperty(e)
    \/ e.action \in {"add", "remove", "reset", "sort"} /\ MissingCollection(e)

\* The log indices of the entries the last call ran without an error.
AppliedInCall ==
    {last.fired[k].index : k \in 1..(Len(last.fired) - (IF last.threw THEN 1 ELSE 0))}
\* Those that change the property at registry id c.
CallChangesOf(c) ==
    {i \in AppliedInCall : /\ logArray[i + 1].action = "change"
                           /\ logArray[i + 1].cid = Num(c)
                           /\ Truthy(logArray[i + 1].value)}

\* The entries applied before an error stay applied, and the failing entry
\* changes no value: every registered property holds the value of the last
\* change the call applied to it, or the value it had before the call.
PartialApplication ==
    \A c \in 0..(Len(properties) - 1) :
        value[properties[c + 1]] =
            IF CallChangesOf(c) = {}
            THEN last.pre.value[properties[c + 1]]
            ELSE Decoded(logArray[Latest(CallChangesOf(c)) + 1].value)

\* C16 as stated: an entry that uses an id its registry does not hold makes
\* the call fail at that entry, with no cursor returned, and the entries
\* applied earlier in the call stay applied.
C16_OutOfRangeFails ==
    (last.op = "stepUntil" /\ ~last.own) =>
        /\ \A k \in 1..Len(last.fired) :
               OutOfRange(logArray[last.fired[k].index + 1]) =>
                   (last.threw /\ k = Len(last.fired))
        /\ last.threw => PartialApplication

\* C16, amended: the call fails at an entry exactly when the entry's handling
\* dereferences a missing object (Faults); an add or remove entry whose
\* collection is registered and whose property id is not is run without an
\* error, with undefined in place of the property; the entries applied before
\* a failure stay applied.
C16_DereferenceFails ==
    (last.op = "stepUntil" /\ ~last.own) =>
        /\ \A k \in 1..Len(last.fired) :
               LET e == logArray[last.fired[k].index + 1]
               IN  /\ Faults(e) <=> (last.threw /\ k = Len(last.fired))
                   /\ (e.action \in {"add", "remove"} /\ ~MissingCollection(e)) =>
                          last.fired[k].did = e.action
        /\ last.threw => PartialApplication

\* A call applied a change to a registered property and then failed at an
\* entry that names an unregistered one: the first property keeps the value
\* the call gave it.
C16_Witness ==
    /\ last.op = "stepUntil"
    /\ ~last.own
    /\ last.threw
    /\ Len(last.fired) = 2
    /\ last.fired[1].did = "change"
    /\ value /= last.pre.value
    /\ Faults(logArray[last.fired[2].index + 1])

\* ------------------------------------------------------------------ C17
\* C17: in every reachable state every entry of the log carries an index
\* that is a valid index of the current properties registry, and the entry a
\* change of property p has just appended carries the index at which the
\* registry holds p.
C17_EntriesIdentifySource ==
    /\ \A i \in 1..Len(entries) : InRange(properties, entries[i].index)
    /\ (last.op = "set" /\ Len(entries) > Len(last.pre.entries)) =>
           /\ InRange(properties, entries[Len(entries)].index)
           /\ properties[entries[Len(entries)].index.n + 1] = last.p

\* ------------------------------------------------------------------ C18
\* C18: once a property was registered while enabled was true, every later
\* change of its value appends its listener's entry, whatever enabled is at
\* the time of the change.
C18_EnabledReadAtRegistration ==
    (/\ last.op = "set"
     /\ registration[last.p] = "enabled"
     /\ last.v /= last.pre.value[last.p]) =>
        /\ Len(entries) = Len(last.pre.entries) + 1
        /\ entries[Len(entries)].action = "change"
        /\ entries[Len(entries)].value = SerializedScalar(last.v)
        /\ entries[Len(entries)].time = now

\* A change recorded while enabled is false, of a property still in the
\* registry.
C18_Witness ==
    /\ last.op = "set"
    /\ ~enabled
    /\ InRegistry(last.p)
    /\ last.v /= last.pre.value[last.p]
    /\ Len(entries) = Len(last.pre.entries) + 1

\* ------------------------------------------------------------------ C19
ExtraFields == {"valueType", "units", "range"}
\* Object o is object parent with the three extra fields set to those of
\* object src.
ParentWithExtras(o, parent, src) ==
    /\ DOMAIN o = DOMAIN parent \cup ExtraFields
    /\ \A f \in DOMAIN parent \ ExtraFields : o[f] = parent[f]
    /\ \A f \in ExtraFields : o[f] = GetField(src, f)

\* C19: toStateObject(p) is the parent adapter's state object with
\* valueType, units and range equal to p's; fromStateObject(s) is the
\* parent's decoded object with the three fields equal to s's, so the decoded
\* state object of p carries p's three fields; and setValue(q, that object)
\* leaves q.units, q.range and q.valueType equal to p's.
C19_ExtraFieldsPreserved ==
    /\ last.op = "toStateObject" =>
           ParentWithExtras(last.stateObject,
                            PropertyIOImpl_toStateObject(numberProperty[last.n]),
                            numberProperty[last.n])
    /\ last.op = "fromStateObject" =>
           /\ ParentWithExtras(last.fromState,
                               PropertyIOImpl_fromStateObject(last.stateObject),
                               last.stateObject)
           /\ \A f \in ExtraFields : last.fromState[f] = numberProperty[last.n][f]
    /\ last.op = "setValue" =>
           \A f \in ExtraFields : numberProperty[last.q][f] = last.pre[last.n][f]

\* setValue has given a NumberProperty the three fields of another one, all
\* three different from those it had.
C19_Witness ==
    /\ last.op = "setValue"
    /\ last.q /= last.n
    /\ \A f \in ExtraFields : last.pre[last.q][f] /= last.pre[last.n][f]
    /\ \A f \in ExtraFields : numberProperty[last.q][f] = numberProperty[last.n][f]
    /\ numberProperty[last.n].range = Range01
====
